---- MODULE Spec2Model ----
(***************************************************************************)
(* A model of js/ocr_bridge.js (card-receipt-ocr): the pixel pipeline of   *)
(* preprocessForOcr (grayscale, histogram, Otsu threshold, binarization,   *)
(* polarity inversion), its scale computation, and the asynchronous life   *)
(* cycle of ocr_recognize / initWorker / preprocessForOcr.                 *)
(***************************************************************************)
EXTENDS Integers, Sequences, FiniteSets

(***************************************************************************)
(* Bounds of the model.                                                    *)
(***************************************************************************)
\* Largest number of pixels of a modelled buffer (data.length / 4).
MaxPixels == 4
\* Largest image width drawn for the scale computation.
MaxSide == 2050
\* Number of ocr_recognize calls that may be in flight.
NumCalls == 2

(***************************************************************************)
(* Natural numbers of arbitrary size, as little-endian sequences of digits *)
(* in base 2^15 without leading zeros (<<>> is 0).  They carry the         *)
(* significands of the JavaScript Numbers (IEEE-754 binary64) that the     *)
(* Otsu search computes, which do not fit a 32-bit integer.                *)
(***************************************************************************)
DigitBits == 15
BASE == 2^15

RECURSIVE BigNorm(_)
BigNorm(x) ==
    IF x = <<>> THEN <<>>
    ELSE IF x[Len(x)] = 0 THEN BigNorm(SubSeq(x, 1, Len(x) - 1))
    ELSE x

RECURSIVE BigOfInt(_)
BigOfInt(n) == IF n = 0 THEN <<>> ELSE <<n % BASE>> \o BigOfInt(n \div BASE)

BigDigit(x, i) == IF i <= Len(x) THEN x[i] ELSE 0

RECURSIVE BigCmpAt(_, _, _)
BigCmpAt(x, y, i) ==
    IF i = 0 THEN 0
    ELSE IF x[i] > y[i] THEN 1
    ELSE IF x[i] < y[i] THEN -1
    ELSE BigCmpAt(x, y, i - 1)

\* 1, 0 or -1 as x > y, x = y or x < y.
BigCmp(x, y) ==
    IF Len(x) > Len(y) THEN 1
    ELSE IF Len(x) < Len(y) THEN -1
    ELSE BigCmpAt(x, y, Len(x))

RECURSIVE BigAddAt(_, _, _, _)
BigAddAt(x, y, i, carry) ==
    IF i > Len(x) /\ i > Len(y)
    THEN (IF carry = 0 THEN <<>> ELSE <<carry>>)
    ELSE LET s == BigDigit(x, i) + BigDigit(y, i) + carry
         IN  <<s % BASE>> \o BigAddAt(x, y, i + 1, s \div BASE)

BigAdd(x, y) == BigAddAt(x, y, 1, 0)

RECURSIVE BigSubAt(_, _, _, _)
BigSubAt(x, y, i, borrow) ==
    IF i > Len(x) THEN <<>>
    ELSE LET s == x[i] - BigDigit(y, i) - borrow
         IN  IF s < 0 THEN <<s + BASE>> \o BigSubAt(x, y, i + 1, 1)
             ELSE <<s>> \o BigSubAt(x, y, i + 1, 0)

\* x - y for x >= y.
BigSub(x, y) == BigNorm(BigSubAt(x, y, 1, 0))

RECURSIVE BigMulSmallAt(_, _, _, _)
BigMulSmallAt(x, d, i, carry) ==
    IF i > Len(x)
    THEN (IF carry = 0 THEN <<>> ELSE <<carry>>)
    ELSE LET s == x[i] * d + carry
         IN  <<s % BASE>> \o BigMulSmallAt(x, d, i + 1, s \div BASE)

\* x * d for 0 <= d < BASE.
BigMulSmall(x, d) == IF d = 0 THEN <<>> ELSE BigMulSmallAt(x, d, 1, 0)

Zeros(k) == [i \in 1..k |-> 0]

RECURSIVE BigMulAt(_, _, _)
BigMulAt(x, y, j) ==
    IF j > Len(y) THEN <<>>
    ELSE BigAdd(BigNorm(Zeros(j - 1) \o BigMulSmall(x, y[j])),
                BigMulAt(x, y, j + 1))

BigMul(x, y) == BigMulAt(x, y, 1)

\* Long division by 0 < d < BASE from the most significant digit:
\* the pair <<quotient digits below i so far, remainder>>.
RECURSIVE BigDivSmallAt(_, _, _, _)
BigDivSmallAt(x, d, i, rem) ==
    IF i = 0 THEN [q |-> <<>>, r |-> rem]
    ELSE LET cur  == rem * BASE + x[i]
             rest == BigDivSmallAt(x, d, i - 1, cur % d)
         IN  [q |-> rest.q \o <<cur \div d>>, r |-> rest.r]

BigDivMod(x, d) ==
    LET res == BigDivSmallAt(x, d, Len(x), 0)
    IN  [q |-> BigNorm(res.q), r |-> res.r]

RECURSIVE IntBitLen(_)
IntBitLen(n) == IF n = 0 THEN 0 ELSE 1 + IntBitLen(n \div 2)

BitLen(x) ==
    IF x = <<>> THEN 0 ELSE DigitBits * (Len(x) - 1) + IntBitLen(x[Len(x)])

\* x * 2^s
BigShl(x, s) ==
    IF x = <<>> THEN <<>>
    ELSE BigMulSmall(Zeros(s \div DigitBits) \o x, 2^(s % DigitBits))

\* floor(x / 2^s)
BigShr(x, s) ==
    IF s \div DigitBits >= Len(x) THEN <<>>
    ELSE BigDivMod(SubSeq(x, s \div DigitBits + 1, Len(x)), 2^(s % DigitBits)).q

(***************************************************************************)
(* JavaScript Numbers.  Every Number the Otsu search computes is a         *)
(* non-negative binary64 value: it is held as the natural number value *   *)
(* 2^FracBits (the means, their difference) or value * 2^(2*FracBits) (the *)
(* square, the variance).  With at most 2^15 pixels of intensity 0..255    *)
(* these are integers, and no value is subnormal or overflows.  Each       *)
(* operation is the exact result rounded to a 53-bit significand, ties to  *)
(* even, as IEEE-754 defines /, - and *.  (x ** 2 is taken as x * x, the   *)
(* correctly rounded square.)                                              *)
(***************************************************************************)
SignificandBits == 53
FracBits == 75

\* Round the natural number x to SignificandBits significant bits, ties to even.
RoundToDouble(x) ==
    LET len == BitLen(x)
    IN  IF len <= SignificandBits THEN x
        ELSE LET s    == len - SignificandBits
                 q    == BigShr(x, s)
                 r    == BigSub(x, BigShl(q, s))
                 c    == BigCmp(r, BigShl(<<1>>, s - 1))
                 up   == c = 1 \/ (c = 0 /\ q[1] % 2 = 1)
             IN  BigShl(IF up THEN BigAdd(q, <<1>>) ELSE q, s)

\* The Number a / b for integers a >= 0, b > 0 (lines 77, 78): the quotient
\* of a * 2^FracBits by b, its lowest bit set when the division is inexact
\* (a sticky bit, far below the rounding position), rounded.
FDiv(a, b) ==
    LET dm == BigDivMod(BigShl(BigOfInt(a), FracBits), b)
        q  == dm.q
        st == IF dm.r # 0 /\ q[1] % 2 = 0
              THEN [q EXCEPT ![1] = q[1] + 1] ELSE q
    IN  RoundToDouble(st)

\* The Number |x - y| (the sign of mB - mF is lost in the square).
FAbsDiff(x, y) ==
    RoundToDouble(IF BigCmp(x, y) >= 0 THEN BigSub(x, y) ELSE BigSub(y, x))

\* The Number d ** 2.
FSquare(d) == RoundToDouble(BigMul(d, d))

\* The Number k * x for a small integer k.
FScale(k, x) == RoundToDouble(BigMulSmall(x, k))

\* variance > maxVar (line 80).
FGreaterEq(x, y) == BigCmp(x, y) >= 0
FGreater(x, y) == BigCmp(x, y) = 1

\* Line 77-79: mB, mF and the between-class variance of one candidate.
Variance(wB, wF, sumB, sum) ==
    LET mB == FDiv(sumB, wB)
        mF == FDiv(sum - sumB, wF)
    IN  FScale(wB * wF, FSquare(FAbsDiff(mB, mF)))

(***************************************************************************)
(* Otsu's method (lines 65-84) on a histogram hist \in [0..255 -> Nat].    *)
(***************************************************************************)
Levels == 0..255

\* Line 70: let sumB = 0, wB = 0, maxVar = 0, threshold = 128.
OtsuStartAtZero ==
    [wB |-> 0, sumB |-> 0, variance |-> <<>>, maxVar |-> <<>>,
     threshold |-> 0, stop |-> FALSE]
OtsuStart ==
    [wB |-> 0, sumB |-> 0, variance |-> <<>>, maxVar |-> <<>>,
     threshold |-> 128, stop |-> FALSE]

\* Line 68: sum += t * hist[t] for lo <= t < hi (integers below 2^53, which
\* Number addition keeps exact; the range is halved to keep the evaluation
\* shallow).
RECURSIVE WeightedSum(_, _, _)
WeightedSum(hist, lo, hi) ==
    IF hi <= lo THEN 0
    ELSE IF hi = lo + 1 THEN lo * hist[lo]
    ELSE WeightedSum(hist, lo, (lo + hi) \div 2)
         + WeightedSum(hist, (lo + hi) \div 2, hi)

\* One iteration of the loop of lines 71-84 for candidate t; st holds the
\* loop's variables, st.stop is set by the break of line 75.  When
\* hist[t] = 0 the operands wB, wF, sumB are those of the iteration before,
\* so line 79 computes the Number it computed there: st.variance.
OtsuStep(hist, totalPixels, sum, st, t) ==
    IF st.stop THEN st
    ELSE LET wB == st.wB + hist[t]
         IN  IF wB = 0 THEN st
             ELSE LET wF == totalPixels - wB
                  IN  IF wF = 0 THEN [st EXCEPT !.stop = TRUE]
                      ELSE LET sumB     == st.sumB + t * hist[t]
                               variance == IF hist[t] = 0 THEN st.variance
                                           ELSE Variance(wB, wF, sumB, sum)
                               better   == FGreater(variance, st.maxVar)
                           IN  [wB |-> wB, sumB |-> sumB,
                                variance |-> variance,
                                maxVar |-> IF better THEN variance
                                           ELSE st.maxVar,
                                threshold |-> IF better THEN t
                                              ELSE st.threshold,
                                stop |-> FALSE]

\* The iterations for t = lo, lo + 1, ..., hi - 1 in this order (the range
\* is halved to keep the evaluation shallow).
RECURSIVE OtsuScan(_, _, _, _, _, _)
OtsuScan(hist, totalPixels, sum, st, lo, hi) ==
    IF hi <= lo THEN st
    ELSE IF hi = lo + 1 THEN OtsuStep(hist, totalPixels, sum, st, lo)
    ELSE LET mid  == (lo + hi) \div 2
             left == OtsuScan(hist, totalPixels, sum, st, lo, mid)
         IN  IF left.stop THEN left
             ELSE OtsuScan(hist, totalPixels, sum, left, mid, hi)

OtsuThreshold(hist, totalPixels) ==
    OtsuScan(hist, totalPixels, WeightedSum(hist, 0, 256), OtsuStart,
             0, 256).threshold

(***************************************************************************)
(* The pixel passes of preprocessForOcr.  A buffer is the sequence of the  *)
(* pixels of imageData.data, each <<R, G, B, A>>.                          *)
(***************************************************************************)
\* The Number x + y.
FAdd(x, y) == RoundToDouble(BigAdd(x, y))

\* The Number literals 0.299, 0.587, 0.114: the binary64 nearest to n / 1000.
Weight(n) == FDiv(n, 1000)

RECURSIVE BigToInt(_)
BigToInt(x) ==
    IF x = <<>> THEN 0 ELSE x[1] + BASE * BigToInt(SubSeq(x, 2, Len(x)))

\* Math.round of a non-negative Number: the integer floor(x + 1/2).
MathRound(x) ==
    BigToInt(BigShr(BigAdd(x, BigShl(<<1>>, FracBits - 1)), FracBits))

\* Lines 58-60: Math.round(0.299 * R + 0.587 * G + 0.114 * B), each product
\* and each sum rounded to a Number.
Gray(px) ==
    MathRound(FAdd(FAdd(FScale(px[1], Weight(299)),
                        FScale(px[2], Weight(587))),
                   FScale(px[3], Weight(114))))

\* Line 61: data[i] = data[i + 1] = data[i + 2] = g, alpha untouched.
GrayPixel(g, alpha) == <<g, g, g, alpha>>

\* Lines 57-63, the buffer: data[i] = data[i+1] = data[i+2] = g.
Pass1(buf) ==
    [i \in DOMAIN buf |-> GrayPixel(Gray(buf[i]), buf[i][4])]

\* Lines 56, 62: hist[g]++ for every pixel, on the buffer after line 61.
Histogram(buf) ==
    [l \in Levels |-> Cardinality({i \in DOMAIN buf : buf[i][1] = l})]

\* Line 90: const bw = data[i] > threshold ? 255 : 0.
BinarizeAtOrAbove(v, threshold) == IF v >= threshold THEN 255 ELSE 0
BinarizeKeepGray(v, threshold) == IF v > threshold THEN 255 ELSE v
Binarize(v, threshold) == IF v > threshold THEN 255 ELSE 0

\* Lines 89-93, the buffer.
Pass2(buf, threshold) ==
    [i \in DOMAIN buf |->
        LET bw == Binarize(buf[i][1], threshold)
        IN  <<bw, bw, bw, buf[i][4]>>]

\* Lines 88, 92: whiteCount++ for every pixel set to 255.
WhiteCount(buf, threshold) ==
    Cardinality({i \in DOMAIN buf : Binarize(buf[i][1], threshold) = 255})

\* Line 98: if (blackCount > whiteCount).
ShouldInvertOnTie(blackCount, whiteCount) == blackCount >= whiteCount
ShouldInvert(blackCount, whiteCount) == blackCount > whiteCount

\* Lines 100-102: data[i] = data[i+1] = data[i+2] = 255 - data[i].
Invert(buf) ==
    [i \in DOMAIN buf |->
        <<255 - buf[i][1], 255 - buf[i][1], 255 - buf[i][1], buf[i][4]>>]

\* Lines 97-103.
Pass3Never(buf, whiteCount) == buf
Pass3(buf, whiteCount) ==
    IF ShouldInvert(Len(buf) - whiteCount, whiteCount) THEN Invert(buf)
    ELSE buf

(***************************************************************************)
(* The colours the modelled buffers are drawn from: the grays 0, 1, 127,    *)
(* 128 and 255 and a colour of gray 2.  They are pixels getImageData can   *)
(* return from a canvas that stores premultiplied colours: opaque ones,    *)
(* transparent black, and white at alpha 128.                              *)
(***************************************************************************)
Palette ==
    { <<0, 0, 0, 0>>, <<1, 1, 1, 255>>, <<3, 1, 5, 255>>,
      <<127, 127, 127, 255>>, <<128, 128, 128, 255>>,
      <<255, 255, 255, 128>> }

Buffers == UNION { [1..n -> Palette] : n \in 1..MaxPixels }

(***************************************************************************)
(* State.                                                                  *)
(***************************************************************************)
VARIABLES
    \* the pixel pipeline (one onload handler's passes)
    input,        \* imageData.data at line 52
    gray,         \* the buffer after pass 1
    threshold,    \* the threshold after the Otsu search
    bin,          \* the buffer after pass 2
    whiteCount,   \* whiteCount after pass 2
    data,         \* the buffer at line 105
    pc            \* "ready" | "done"

pixelVars == <<input, gray, threshold, bin, whiteCount, data, pc>>

PixelInit ==
    /\ input \in Buffers
    /\ gray = <<>> /\ threshold = -1 /\ bin = <<>>
    /\ whiteCount = 0 /\ data = <<>>
    /\ pc = "ready"

\* Lines 55-103 on the buffer of line 52.
Process ==
    /\ pc = "ready"
    /\ gray' = Pass1(input)
    /\ threshold' = OtsuThreshold(Histogram(gray'), Len(input))
    /\ whiteCount' = WhiteCount(gray', threshold')
    /\ bin' = Pass2(gray', threshold')
    /\ data' = Pass3(bin', whiteCount')
    /\ pc' = "done"
    /\ UNCHANGED input

PixelIdle ==
    /\ input = <<>> /\ gray = <<>> /\ threshold = -1
    /\ bin = <<>> /\ whiteCount = 0 /\ data = <<>> /\ pc = "off"

(***************************************************************************)
(* The scale computation (lines 36-44).                                    *)
(***************************************************************************)
\* Line 39: the target for the longest side.
TargetDim == 2000

Max(a, b) == IF a >= b THEN a ELSE b

\* Math.ceil of a non-negative Number.
MathCeil(x) ==
    BigToInt(BigShr(BigAdd(x, BigSub(BigShl(<<1>>, FracBits), <<1>>)),
                    FracBits))

\* Lines 37-41.
ScaleForFloor(maxDim) ==
    IF maxDim < TargetDim THEN TargetDim \div maxDim ELSE 1
ScaleFor(maxDim) ==
    IF maxDim < TargetDim THEN MathCeil(FDiv(TargetDim, maxDim)) ELSE 1

\* The heights drawn with every width 1..MaxSide.
Heights == {1, 500, 1999, 2000, 2001}

VARIABLES
    width,          \* img.width
    height,         \* img.height
    scale,          \* scale (0 before line 37)
    canvasWidth,    \* canvas.width
    canvasHeight,   \* canvas.height
    spc             \* "loaded" | "scaled"

scaleVars == <<width, height, scale, canvasWidth, canvasHeight, spc>>

ScaleInit ==
    /\ width \in 1..MaxSide
    /\ height \in Heights
    /\ scale = 0 /\ canvasWidth = 0 /\ canvasHeight = 0
    /\ spc = "loaded"

ScaleIdle ==
    /\ width = 0 /\ height = 0 /\ scale = 0 /\ canvasWidth = 0
    /\ canvasHeight = 0 /\ spc = "off"

\* Lines 37-44.
ComputeScale ==
    /\ spc = "loaded"
    /\ scale' = ScaleFor(Max(width, height))
    /\ canvasWidth' = width * scale'
    /\ canvasHeight' = height * scale'
    /\ spc' = "scaled"
    /\ UNCHANGED <<width, height>>

(***************************************************************************)
(* The calls of ocr_recognize (lines 131-140), with initWorker (lines      *)
(* 11-19) and the callbacks of preprocessForOcr (lines 25-127).  Each      *)
(* action is one run-to-completion step of the event loop: the code of a   *)
(* call from one await (or callback) to the next.  The promises of the     *)
(* recognition engine (createWorker, setParameters, recognize) resolve.    *)
(***************************************************************************)
Calls == 1..NumCalls

VARIABLES
    tesseractWorker,  \* the module's worker: 0 for null, else a worker's id
    created,          \* number of Tesseract.createWorker invocations
    cpc,              \* cpc[c]: where call c is
    newWorker,        \* newWorker[c]: the worker c's createWorker promise holds
    url,              \* url[c]: "none" | "live" | "revoked"
    result,           \* result[c]: what preprocessForOcr's promise resolved
                      \*   with: "none" | "orig" | "png"
    failed,           \* failed[c]: the stage that failed: "none" | "decode"
                      \*   | "canvas" | "encode"
    used              \* used[c]: the worker line 137 called recognize on

callVars ==
    <<tesseractWorker, created, cpc, newWorker, url, result, failed, used>>

vars == <<pixelVars, scaleVars, callVars>>

CallInit ==
    /\ tesseractWorker = 0
    /\ created = 0
    /\ cpc = [c \in Calls |-> "idle"]
    /\ newWorker = [c \in Calls |-> 0]
    /\ url = [c \in Calls |-> "none"]
    /\ result = [c \in Calls |-> "none"]
    /\ failed = [c \in Calls |-> "none"]
    /\ used = [c \in Calls |-> 0]

CallIdle ==
    /\ tesseractWorker = 0 /\ created = 0
    /\ cpc = [c \in Calls |-> "off"]
    /\ newWorker = [c \in Calls |-> 0]
    /\ url = [c \in Calls |-> "none"]
    /\ result = [c \in Calls |-> "none"]
    /\ failed = [c \in Calls |-> "none"]
    /\ used = [c \in Calls |-> 0]

\* Lines 132, 12, 13: ocr_recognize enters initWorker, which returns when the
\* worker is set and otherwise invokes Tesseract.createWorker and awaits it.
StartCall(c) ==
    /\ cpc[c] = "idle"
    /\ IF tesseractWorker # 0
       THEN /\ cpc' = [cpc EXCEPT ![c] = "initialized"]
            /\ UNCHANGED <<created, newWorker>>
       ELSE /\ created' = created + 1
            /\ newWorker' = [newWorker EXCEPT ![c] = created + 1]
            /\ cpc' = [cpc EXCEPT ![c] = "creating"]
    /\ UNCHANGED <<tesseractWorker, url, result, failed, used>>

\* Lines 13, 15: the createWorker promise resolves; the worker is assigned
\* and setParameters is awaited.
WorkerCreated(c) ==
    /\ cpc[c] = "creating"
    /\ tesseractWorker' = newWorker[c]
    /\ cpc' = [cpc EXCEPT ![c] = "configuring"]
    /\ UNCHANGED <<created, newWorker, url, result, failed, used>>

\* Lines 15-19: setParameters resolves, initWorker returns.
ParametersSet(c) ==
    /\ cpc[c] = "configuring"
    /\ cpc' = [cpc EXCEPT ![c] = "initialized"]
    /\ UNCHANGED <<tesseractWorker, created, newWorker, url, result, failed,
                   used>>

\* Lines 133, 26-29, 125: preprocessForOcr's executor creates the object URL
\* and starts the decode.
StartPreprocess(c) ==
    /\ cpc[c] = "initialized"
    /\ url' = [url EXCEPT ![c] = "live"]
    /\ cpc' = [cpc EXCEPT ![c] = "loading"]
    /\ UNCHANGED <<tesseractWorker, created, newWorker, result, failed, used>>

\* Lines 120-123: the decode fails.
OnError(c) ==
    /\ cpc[c] = "loading"
    /\ url' = [url EXCEPT ![c] = "revoked"]
    /\ result' = [result EXCEPT ![c] = "orig"]
    /\ failed' = [failed EXCEPT ![c] = "decode"]
    /\ cpc' = [cpc EXCEPT ![c] = "preprocessed"]
    /\ UNCHANGED <<tesseractWorker, created, newWorker, used>>

\* Lines 31-34 ..., 113-117: onload, a statement of the try block throws
\* (no canvas or context: stage "canvas"; canvas.toBlob throws: "encode").
OnLoadThrowsLeaks(c) ==
    /\ cpc[c] = "loading"
    /\ \E stage \in {"canvas", "encode"} :
          failed' = [failed EXCEPT ![c] = stage]
    /\ result' = [result EXCEPT ![c] = "orig"]
    /\ cpc' = [cpc EXCEPT ![c] = "preprocessed"]
    /\ UNCHANGED <<tesseractWorker, created, newWorker, used, url>>
OnLoadThrows(c) ==
    /\ cpc[c] = "loading"
    /\ \E stage \in {"canvas", "encode"} :
          failed' = [failed EXCEPT ![c] = stage]
    /\ result' = [result EXCEPT ![c] = "orig"]
    /\ url' = [url EXCEPT ![c] = "revoked"]
    /\ cpc' = [cpc EXCEPT ![c] = "preprocessed"]
    /\ UNCHANGED <<tesseractWorker, created, newWorker, used>>

\* Lines 31-112, 117: onload runs to canvas.toBlob, which takes the callback.
OnLoad(c) ==
    /\ cpc[c] = "loading"
    /\ url' = [url EXCEPT ![c] = "revoked"]
    /\ cpc' = [cpc EXCEPT ![c] = "encoding"]
    /\ UNCHANGED <<tesseractWorker, created, newWorker, result, failed, used>>

\* Lines 108-109: the encoder delivers a blob; blob.arrayBuffer() is pending.
BlobDelivered(c) ==
    /\ cpc[c] = "encoding"
    /\ cpc' = [cpc EXCEPT ![c] = "reading"]
    /\ UNCHANGED <<tesseractWorker, created, newWorker, url, result, failed,
                   used>>

\* Lines 108-109: the encoder delivers null; blob.arrayBuffer() throws a
\* TypeError in the callback, outside the try block of line 32: nothing is
\* left that calls resolve.
BlobNull(c) ==
    /\ cpc[c] = "encoding"
    /\ failed' = [failed EXCEPT ![c] = "encode"]
    /\ cpc' = [cpc EXCEPT ![c] = "stuck"]
    /\ UNCHANGED <<tesseractWorker, created, newWorker, url, result, used>>

\* Line 109: the arrayBuffer promise resolves: resolve(new Uint8Array(buf)).
BufferRead(c) ==
    /\ cpc[c] = "reading"
    /\ result' = [result EXCEPT ![c] = "png"]
    /\ cpc' = [cpc EXCEPT ![c] = "preprocessed"]
    /\ UNCHANGED <<tesseractWorker, created, newWorker, url, failed, used>>

\* Line 109: the arrayBuffer promise rejects; it has no rejection handler:
\* nothing is left that calls resolve.
BufferFails(c) ==
    /\ cpc[c] = "reading"
    /\ failed' = [failed EXCEPT ![c] = "encode"]
    /\ cpc' = [cpc EXCEPT ![c] = "stuck"]
    /\ UNCHANGED <<tesseractWorker, created, newWorker, url, result, used>>

\* Lines 133-137: the await of preprocessForOcr continues; recognize is
\* called on the module's worker.
Recognize(c) ==
    /\ cpc[c] = "preprocessed"
    /\ used' = [used EXCEPT ![c] = tesseractWorker]
    /\ cpc' = [cpc EXCEPT ![c] = "recognizing"]
    /\ UNCHANGED <<tesseractWorker, created, newWorker, url, result, failed>>

\* Lines 137-139: recognize resolves, ocr_recognize returns the text.
Recognized(c) ==
    /\ cpc[c] = "recognizing"
    /\ cpc' = [cpc EXCEPT ![c] = "returned"]
    /\ UNCHANGED <<tesseractWorker, created, newWorker, url, result, failed,
                   used>>

\* The image's load or error event.
Decoded(c) == OnError(c) \/ OnLoadThrows(c) \/ OnLoad(c)

(***************************************************************************)
(* Specifications.                                                         *)
(***************************************************************************)
otherThanCalls == <<pixelVars, scaleVars>>

Init == CallInit /\ PixelIdle /\ ScaleIdle

Next ==
    \/ \E c \in Calls : StartCall(c) /\ UNCHANGED otherThanCalls
    \/ \E c \in Calls : WorkerCreated(c) /\ UNCHANGED otherThanCalls
    \/ \E c \in Calls : ParametersSet(c) /\ UNCHANGED otherThanCalls
    \/ \E c \in Calls : StartPreprocess(c) /\ UNCHANGED otherThanCalls
    \/ \E c \in Calls : OnError(c) /\ UNCHANGED otherThanCalls
    \/ \E c \in Calls : OnLoadThrows(c) /\ UNCHANGED otherThanCalls
    \/ \E c \in Calls : OnLoad(c) /\ UNCHANGED otherThanCalls
    \/ \E c \in Calls : BlobDelivered(c) /\ UNCHANGED otherThanCalls
    \/ \E c \in Calls : BlobNull(c) /\ UNCHANGED otherThanCalls
    \/ \E c \in Calls : BufferRead(c) /\ UNCHANGED otherThanCalls
    \/ \E c \in Calls : BufferFails(c) /\ UNCHANGED otherThanCalls
    \/ \E c \in Calls : Recognize(c) /\ UNCHANGED otherThanCalls
    \/ \E c \in Calls : Recognized(c) /\ UNCHANGED otherThanCalls

Spec == Init /\ [][Next]_vars

\* The browser fires the load or the error event of an image whose src was
\* set (line 125).
FairSpec ==
    /\ Init
    /\ [][Next]_vars
    /\ \A c \in Calls : WF_vars(Decoded(c) /\ UNCHANGED otherThanCalls)

PixelSpecInit == PixelInit /\ ScaleIdle /\ CallIdle
PixelSpecNext == Process /\ UNCHANGED <<scaleVars, callVars>>
PixelSpec == PixelSpecInit /\ [][PixelSpecNext]_vars

ScaleSpecInit == ScaleInit /\ PixelIdle /\ CallIdle
ScaleSpecNext == ComputeScale /\ UNCHANGED <<pixelVars, callVars>>
ScaleSpec == ScaleSpecInit /\ [][ScaleSpecNext]_vars

(***************************************************************************)
(* Properties.                                                             *)
(***************************************************************************)
\* Pixels of buf whose three colour channels all hold v.
CountOf(buf, v) ==
    Cardinality({i \in DOMAIN buf :
                    buf[i][1] = v /\ buf[i][2] = v /\ buf[i][3] = v})
Black(buf) == CountOf(buf, 0)
White(buf) == CountOf(buf, 255)

\* The non-empty bins of the histogram of pass 1.
NonEmptyBins == {l \in Levels : Histogram(gray)[l] > 0}

\* Whether pass 3 inverted: an inversion changes every pixel.
InversionRan == data # bin

\* C1: whichever stage of preprocessForOcr fails (decode, canvas/context,
\* encode: no blob, or the blob's bytes cannot be read), the call resolves
\* with the original input bytes; it never hangs.  (A call that is "stuck"
\* has no callback left that could resolve it.)
C1_FailureResolvesWithOriginal ==
    \A c \in Calls : failed[c] # "none" => result[c] = "orig"

\* C2: after the full pipeline the black pixels are at most as many as the
\* white ones; the inversion ran exactly when black > white after pass 2
\* (so a tie does not invert).
C2_PolarityInvariant ==
    pc = "done" =>
        /\ Black(data) <= White(data)
        /\ InversionRan <=> (Black(bin) > White(bin))
        /\ InversionRan => data = Invert(bin)

C2_Witness ==
    /\ pc = "done"
    /\ Black(bin) > White(bin) /\ White(bin) > 0
    /\ InversionRan

\* C3: after pass 2 and after pass 3 every pixel's R, G and B are equal and
\* are 0 or 255, and its alpha is the one it had before pass 1.
TwoLevel(buf) ==
    /\ Len(buf) = Len(input)
    /\ \A i \in DOMAIN buf :
          /\ buf[i][1] \in {0, 255}
          /\ buf[i][2] = buf[i][1] /\ buf[i][3] = buf[i][1]
          /\ buf[i][4] = input[i][4]

C3_TwoLevelAlphaKept == pc = "done" => TwoLevel(bin) /\ TwoLevel(data)

C3_Witness ==
    /\ pc = "done"
    /\ InversionRan
    /\ \E i \in DOMAIN input : input[i][1] # input[i][2]
    /\ \E i \in DOMAIN input : input[i][4] \notin {0, 255}

\* C4: the Otsu search returns a threshold in 0..255, and 128 when a single
\* bin is non-empty.
C4_ThresholdRange ==
    pc = "done" =>
        /\ threshold \in Levels
        /\ Cardinality(NonEmptyBins) = 1 => threshold = 128

C4_Witness ==
    /\ pc = "done"
    /\ Len(input) > 1
    /\ NonEmptyBins = {2}
    /\ threshold = 128

\* The passes of lines 55-103 applied to the buffer buf: the threshold they
\* choose and the buffer they leave.
PassesOn(buf) ==
    CHOOSE r \in { [threshold |-> t,
                    data |-> Pass3(Pass2(g, t), WhiteCount(g, t))] :
                       g \in {Pass1(buf)},
                       t \in {OtsuThreshold(Histogram(Pass1(buf)),
                                            Len(buf))} } : TRUE

\* C5 as claimed: the passes applied to the buffer a run produced leave the
\* white and black counts as they were and choose that run's threshold.
C5_RerunSameCountsAndThreshold ==
    pc = "done" =>
        \A again \in {PassesOn(data)} :
            /\ White(again.data) = White(data)
            /\ Black(again.data) = Black(data)
            /\ again.threshold = threshold

\* C5 as amended: the passes applied to the buffer a run produced leave the
\* white and black counts as they were; the threshold they choose is 0 when
\* that buffer has a black pixel and 128 when it is all white, whatever
\* the run's threshold was.
C5_RerunSameCounts ==
    pc = "done" =>
        \A again \in {PassesOn(data)} :
            /\ White(again.data) = White(data)
            /\ Black(again.data) = Black(data)
            /\ again.threshold = IF Black(data) > 0 THEN 0 ELSE 128

C5_Witness ==
    /\ pc = "done"
    /\ Black(data) > 0
    /\ threshold > 0
    /\ \E again \in {PassesOn(data)} :
          /\ again.threshold = 0
          /\ again.data = data

\* C6: the scale is an integer >= 1: the least k with k * maxDim >= 2000
\* (the ceiling of 2000 / maxDim) when maxDim < 2000, else 1; the canvas is
\* width * scale by height * scale; its longer side is at least 2000 when
\* the image was scaled; maxDim = 500 gives 4.
C6_ScaleFactor ==
    spc = "scaled" =>
        LET maxDim == Max(width, height)
        IN  /\ scale \in Nat /\ scale >= 1
            /\ maxDim < 2000 =>
                  /\ scale * maxDim >= 2000
                  /\ (scale - 1) * maxDim < 2000
                  /\ Max(canvasWidth, canvasHeight) >= 2000
            /\ maxDim >= 2000 => scale = 1
            /\ canvasWidth = width * scale
            /\ canvasHeight = height * scale
            /\ maxDim = 500 => scale = 4

C6_Witness ==
    /\ spc = "scaled"
    /\ width = 300 /\ height = 500
    /\ scale = 4 /\ canvasWidth = 1200 /\ canvasHeight = 2000

\* C7: the object URL of a call is live only while the decode is pending:
\* once onload or onerror has run (on every path: decode error, exception,
\* encoder failure, success) it is revoked, and a call that has its result
\* has its URL revoked; and a live URL is eventually revoked.
C7_UrlRevoked ==
    /\ [](\A c \in Calls :
            /\ url[c] = "live" => cpc[c] = "loading"
            /\ result[c] # "none" => url[c] = "revoked"
            /\ cpc[c] \in {"encoding", "reading", "stuck", "preprocessed"}
                  => url[c] = "revoked")
    /\ \A c \in Calls : (url[c] = "live") ~> (url[c] = "revoked")

C7_Witness ==
    \E c, d \in Calls :
        /\ failed[c] = "canvas" /\ result[c] = "orig" /\ url[c] = "revoked"
        /\ cpc[d] = "stuck" /\ url[d] = "revoked"

\* C8: Tesseract.createWorker is invoked at most once, and every recognize
\* is called on the same worker.
C8_OneWorker ==
    /\ created <= 1
    /\ \A c, d \in Calls : (used[c] # 0 /\ used[d] # 0) => used[c] = used[d]

\* C9: when every pixel has the same intensity g, the threshold is 128 and
\* the final buffer is all white: for g <= 128 pass 2 makes every pixel
\* black and pass 3 inverts, for g > 128 pass 2 makes every pixel white and
\* pass 3 does not invert.
C9_UniformImage ==
    (pc = "done" /\ Cardinality(NonEmptyBins) = 1) =>
        LET g == gray[1][1]
        IN  /\ threshold = 128
            /\ White(data) = Len(input)
            /\ g <= 128 => Black(bin) = Len(input) /\ InversionRan
            /\ g > 128 => White(bin) = Len(input) /\ ~InversionRan

C9_Witness ==
    /\ pc = "done"
    /\ Len(input) = 3
    /\ NonEmptyBins = {127}
    /\ Black(bin) = 3 /\ White(data) = 3

\* Class B of candidate t (intensities <= t): its pixel count and the sum of
\* its intensities, from the buffer after pass 1.
BackgroundCount(t) == Cardinality({i \in DOMAIN gray : gray[i][1] <= t})

RECURSIVE SumBelow(_, _)
SumBelow(t, n) ==
    IF n = 0 THEN 0
    ELSE SumBelow(t, n - 1) + (IF gray[n][1] <= t THEN gray[n][1] ELSE 0)

BackgroundSum(t) == SumBelow(t, Len(gray))

\* Both classes of candidate t are non-empty.
ValidSplit(t) == BackgroundCount(t) > 0 /\ BackgroundCount(t) < Len(gray)

\* The between-class variance wB wF (meanB - meanF)^2 of candidate t as the
\* exact fraction VarNum(t) / VarDen(t).
VarDen(t) == BackgroundCount(t) * (Len(gray) - BackgroundCount(t))
VarNum(t) ==
    LET wB == BackgroundCount(t)
        wF == Len(gray) - wB
        d  == BackgroundSum(t) * wF - (BackgroundSum(255) - BackgroundSum(t)) * wB
    IN  d * d
ExactLess(t, u) == VarNum(t) * VarDen(u) < VarNum(u) * VarDen(t)

\* The same variance as the Number the code computes.
ComputedVariance(t) ==
    Variance(BackgroundCount(t), Len(gray) - BackgroundCount(t),
             BackgroundSum(t), BackgroundSum(255))

\* C10 as claimed: with at least two non-empty bins, the threshold is the
\* smallest t that maximizes the (real-valued) between-class variance over
\* the candidates whose two classes are non-empty.
C10_SmallestExactMaximizer ==
    (pc = "done" /\ Cardinality(NonEmptyBins) >= 2) =>
        /\ ValidSplit(threshold)
        /\ \A t \in Levels :
              ValidSplit(t) =>
                  /\ ~ExactLess(threshold, t)
                  /\ t < threshold => ExactLess(t, threshold)

\* C10 as amended: with at least two non-empty bins, the threshold is the
\* smallest t that maximizes the between-class variance as the code computes
\* it in double precision, over the candidates whose two classes are
\* non-empty.  (A candidate with an empty bin has the classes, and the
\* variance, of the candidate before it, so the smallest maximizer is a
\* non-empty bin and the non-empty bins are the candidates to compare.)
C10_SmallestComputedMaximizer ==
    (pc = "done" /\ Cardinality(NonEmptyBins) >= 2) =>
        /\ ValidSplit(threshold)
        /\ threshold \in NonEmptyBins
        /\ \A t \in NonEmptyBins :
              ValidSplit(t) =>
                  LET c == BigCmp(ComputedVariance(t),
                                  ComputedVariance(threshold))
                  IN  /\ c <= 0
                      /\ t < threshold => c < 0

\* Two candidates of equal real-valued variance, the later one chosen.
C10_Witness ==
    /\ pc = "done"
    /\ Cardinality(NonEmptyBins) >= 3
    /\ \E t \in NonEmptyBins :
          /\ t < threshold
          /\ ~ExactLess(t, threshold) /\ ~ExactLess(threshold, t)

====
